---- MODULE Spec2Model ----
(***************************************************************************)
(* Boundary-crossing benchmark (bench.py, python_node.py).                 *)
(*                                                                         *)
(* The heap holds the linked-list nodes.  build_list, the two Python        *)
(* traversals and bench are run statement by statement in their own frames *)
(* (bl, sm, bn) when called directly with small arguments (drv, SpecList,  *)
(* SpecBench).  main (mn, SpecMain) runs with the program's N and M and     *)
(* takes each call it makes as one step; SpecProbe runs its environment    *)
(* section against every behaviour of the two version subprocesses.        *)
(***************************************************************************)
EXTENDS Integers, Sequences, FiniteSets

VARIABLES
    heap,       \* the allocated nodes, in allocation order: a reference is an index
    ctorCalls,  \* number of NodeClass(...) constructor calls made so far
    bl,         \* frame of build_list
    sm,         \* frame of py_sum_list / python_sum_list
    drv,        \* direct caller of build_list and of the traversals
    bn,         \* frame of bench
    clock,      \* time.perf_counter_ns()
    fnCalls,    \* number of fn(head) invocations made by bench so far
    stamps,     \* the timestamps taken, each with the invocations made before it
    out,        \* the lines printed to standard output
    mn,         \* frame of main
    proc        \* the machine: what its cc and rustc subprocesses do, and the
                \* time one warmup call of a traversal takes on it

listVars == <<heap, ctorCalls, bl, sm, drv>>
benchVars == <<bn, clock, fnCalls, stamps>>
mainVars == <<mn, proc>>
vars == <<listVars, benchVars, out, mainVars>>

\* ------------------------------------------------------------------ bounds

MaxN == 4
MaxSumCalls == 2
MaxIterations == 3
MaxCallNs == 2
MaxElapsedNs == 2
MaxStdoutLen == 2
LoopChunk == 32

\* ------------------------------------------------------------- data model

\* Python's None: the absence marker of a next reference.
None == 0

Providers == {"PyNode", "CNode", "RustNode"}

\* @dataclass PyNode(value, next): allocates a fresh object holding the two
\* fields; the object passed as next is referenced, not touched.
PyNode(h, value, next) ==
    Append(h, [cls |-> "PyNode", value |-> value, next |-> next])

\* CNode / RustNode (extension modules): construct(value, next) per the node
\* provider contract.
ForeignNode(h, cls, value, next) ==
    Append(h, [cls |-> cls, value |-> value, next |-> next])

\* NodeClass(value=..., next=...) as called by build_list.
NodeClass(h, cls, value, next) ==
    IF cls = "PyNode" THEN PyNode(h, value, next)
                      ELSE ForeignNode(h, cls, value, next)

IdleBuild == [pc |-> "idle", NodeClass |-> "PyNode", n |-> 0, head |-> None, i |-> 0]
IdleSum == [pc |-> "idle", fn |-> "py_sum_list", head |-> None,
            total |-> 0, current |-> None, ret |-> 0]
IdleDrv == [pc |-> "off", NodeClass |-> "PyNode", n |-> 0, head |-> None, sums |-> <<>>]

\* main at its first statement, and main not running.
StartMain == [pc |-> "banner", py_list |-> None, c_list |-> None, rust_list |-> None,
              expected |-> 0, check |-> 0, sums |-> <<>>, b |-> 0, times |-> <<>>,
              err |-> ""]
IdleMain == [StartMain EXCEPT !.pc = "off"]

\* A machine with neither cc nor rustc installed.
NoProc == [cc |-> [kind |-> "missing"], rustc |-> [kind |-> "missing"], warm_ns |-> 0]

\* -------------------------------------------------------------- build_list

\* Mutant: the precondition admits n = 0.
BuildAssertNonNegative ==
    /\ bl.pc = "assert"
    /\ bl' = [bl EXCEPT !.pc = IF bl.n >= 0 THEN "first" ELSE "raised"]
    /\ UNCHANGED <<heap, ctorCalls, sm, drv>>
    /\ UNCHANGED <<benchVars, out, mainVars>>

\* assert n > 0
BuildAssert ==
    /\ bl.pc = "assert"
    /\ bl' = [bl EXCEPT !.pc = IF bl.n > 0 THEN "first" ELSE "raised"]
    /\ UNCHANGED <<heap, ctorCalls, sm, drv>>
    /\ UNCHANGED <<benchVars, out, mainVars>>

\* head = NodeClass(value=n - 1, next=None); the range of the loop starts at n - 2
BuildFirst ==
    /\ bl.pc = "first"
    /\ heap' = NodeClass(heap, bl.NodeClass, bl.n - 1, None)
    /\ ctorCalls' = ctorCalls + 1
    /\ bl' = [bl EXCEPT !.pc = "loop", !.head = Len(heap) + 1, !.i = bl.n - 2]
    /\ UNCHANGED <<sm, drv>>
    /\ UNCHANGED <<benchVars, out, mainVars>>

\* Mutant: the range stops at 1, so the node of value 0 is never prepended.
BuildLoopStopsEarly ==
    /\ bl.pc = "loop"
    /\ IF bl.i > 0
         THEN /\ heap' = NodeClass(heap, bl.NodeClass, bl.i, bl.head)
              /\ ctorCalls' = ctorCalls + 1
              /\ bl' = [bl EXCEPT !.head = Len(heap) + 1, !.i = bl.i - 1]
         ELSE /\ bl' = [bl EXCEPT !.pc = "returned"]
              /\ UNCHANGED <<heap, ctorCalls>>
    /\ UNCHANGED <<sm, drv>>
    /\ UNCHANGED <<benchVars, out, mainVars>>

\* for i in range(n - 2, -1, -1): head = NodeClass(value=i, next=head)
\* and, the range exhausted, return head
BuildLoop ==
    /\ bl.pc = "loop"
    /\ IF bl.i > -1
         THEN /\ heap' = NodeClass(heap, bl.NodeClass, bl.i, bl.head)
              /\ ctorCalls' = ctorCalls + 1
              /\ bl' = [bl EXCEPT !.head = Len(heap) + 1, !.i = bl.i - 1]
         ELSE /\ bl' = [bl EXCEPT !.pc = "returned"]
              /\ UNCHANGED <<heap, ctorCalls>>
    /\ UNCHANGED <<sm, drv>>
    /\ UNCHANGED <<benchVars, out, mainVars>>

\* ------------------------------------------------------------- traversals

\* python_node.py: py_sum_list(head), one statement per step.
py_sum_list ==
    /\ sm.fn = "py_sum_list"
    /\ sm.pc \in {"init", "loop"}
    /\ sm' = IF sm.pc = "init"
               THEN [sm EXCEPT !.pc = "loop", !.total = 0, !.current = sm.head]
             ELSE IF sm.current # None
               THEN [sm EXCEPT !.total = sm.total + heap[sm.current].value,
                               !.current = heap[sm.current].next]
             ELSE [sm EXCEPT !.pc = "returned", !.ret = sm.total]
    /\ UNCHANGED <<heap, ctorCalls, bl, drv>>
    /\ UNCHANGED <<benchVars, out, mainVars>>

\* Mutant: the loop tests current.next, so it stops before the last node.
python_sum_list_stops_early ==
    /\ sm.fn = "python_sum_list"
    /\ sm.pc \in {"init", "loop"}
    /\ sm' = IF sm.pc = "init"
               THEN [sm EXCEPT !.pc = "loop", !.total = 0, !.current = sm.head]
             ELSE IF sm.current # None /\ heap[sm.current].next # None
               THEN [sm EXCEPT !.total = sm.total + heap[sm.current].value,
                               !.current = heap[sm.current].next]
             ELSE [sm EXCEPT !.pc = "returned", !.ret = sm.total]
    /\ UNCHANGED <<heap, ctorCalls, bl, drv>>
    /\ UNCHANGED <<benchVars, out, mainVars>>

\* bench.py: python_sum_list(head), one statement per step.
python_sum_list ==
    /\ sm.fn = "python_sum_list"
    /\ sm.pc \in {"init", "loop"}
    /\ sm' = IF sm.pc = "init"
               THEN [sm EXCEPT !.pc = "loop", !.total = 0, !.current = sm.head]
             ELSE IF sm.current # None
               THEN [sm EXCEPT !.total = sm.total + heap[sm.current].value,
                               !.current = heap[sm.current].next]
             ELSE [sm EXCEPT !.pc = "returned", !.ret = sm.total]
    /\ UNCHANGED <<heap, ctorCalls, bl, drv>>
    /\ UNCHANGED <<benchVars, out, mainVars>>

\* ------------------------------------------------------ per-call cost values

Abs(x) == IF x < 0 THEN -x ELSE x

RECURSIVE GCD(_, _)
GCD(a, b) == IF b = 0 THEN a ELSE GCD(b, a % b)

\* The quotient num / den (den # 0) of Python's true division, kept exact as the
\* reduced fraction <<numerator, denominator>> with a positive denominator.
TrueDiv(num, den) ==
    LET g == GCD(Abs(num), Abs(den))
        sgn == IF den < 0 THEN -1 ELSE 1
    IN  <<(sgn * num) \div g, Abs(den) \div g>>

\* x / y, x - y, x < y and x == 0.0 on such quotients.
QuotDiv(x, y) == TrueDiv(x[1] * y[2], x[2] * y[1])
QuotSub(x, y) ==
    LET l == (x[2] \div GCD(x[2], y[2])) * y[2]
    IN  TrueDiv(x[1] * (l \div x[2]) - y[1] * (l \div y[2]), l)
QuotLess(x, y) == x[1] * y[2] < y[1] * x[2]
QuotIsZero(x) == x[1] = 0
QuotDivInt(x, n) == TrueDiv(x[1], x[2] * n)

\* ------------------------------------------------------------------- bench

\* Mutant: one warmup call fewer.
WarmupShort == 1000 - 1

\* for _ in range(1000): the number of warmup calls
WARMUP == 1000

NoFn == [callable |-> FALSE, warm_ns |-> 0]

IdleBench == [pc |-> "idle", label |-> "", fn |-> NoFn, iterations |-> 0,
              warm |-> 0, timed |-> 0, t0 |-> 0, elapsed_ns |-> 0,
              ns_per |-> <<0, 1>>, err |-> ""]

\* print(f"{label:40s}  {ns_per:8.0f} ns/traversal")
ResultLine(label, ns_per) == [kind |-> "result", label |-> label, value |-> ns_per]

\* Mutant: the precondition admits iterations = 0.
BenchAssertIterationsNonNegative ==
    /\ bn.pc = "assert_iterations"
    /\ bn' = IF bn.iterations >= 0
               THEN [bn EXCEPT !.pc = "assert_callable"]
               ELSE [bn EXCEPT !.pc = "raised", !.err = "AssertionError"]
    /\ UNCHANGED <<listVars, clock, fnCalls, stamps, out, mainVars>>

\* assert iterations > 0
BenchAssertIterations ==
    /\ bn.pc = "assert_iterations"
    /\ bn' = IF bn.iterations > 0
               THEN [bn EXCEPT !.pc = "assert_callable"]
               ELSE [bn EXCEPT !.pc = "raised", !.err = "AssertionError"]
    /\ UNCHANGED <<listVars, clock, fnCalls, stamps, out, mainVars>>

\* assert callable(fn)
BenchAssertCallable ==
    /\ bn.pc = "assert_callable"
    /\ bn' = IF bn.fn.callable
               THEN [bn EXCEPT !.pc = "warmup", !.warm = 0]
               ELSE [bn EXCEPT !.pc = "raised", !.err = "AssertionError"]
    /\ UNCHANGED <<listVars, clock, fnCalls, stamps, out, mainVars>>

\* for _ in range(1000): fn(head)
\* Calling an object that is not callable raises TypeError.
BenchWarmup ==
    /\ bn.pc = "warmup"
    /\ IF bn.warm < WARMUP
         THEN IF bn.fn.callable
                THEN /\ fnCalls' = fnCalls + 1
                     /\ clock' = clock + bn.fn.warm_ns
                     /\ bn' = [bn EXCEPT !.warm = bn.warm + 1]
                ELSE /\ bn' = [bn EXCEPT !.pc = "raised", !.err = "TypeError"]
                     /\ UNCHANGED <<clock, fnCalls>>
         ELSE /\ bn' = [bn EXCEPT !.pc = "t0"]
              /\ UNCHANGED <<clock, fnCalls>>
    /\ UNCHANGED <<listVars, stamps, out, mainVars>>

\* t0 = time.perf_counter_ns()
BenchT0 ==
    /\ bn.pc = "t0"
    /\ bn' = [bn EXCEPT !.pc = "timed", !.t0 = clock, !.timed = 0]
    /\ stamps' = Append(stamps, [t |-> clock, calls |-> fnCalls])
    /\ UNCHANGED <<listVars, clock, fnCalls, out, mainVars>>

\* for _ in range(iterations): fn(head)
\* Each call takes some time between 0 and MaxCallNs on the clock.
BenchTimed ==
    /\ bn.pc = "timed"
    /\ IF bn.timed < bn.iterations
         THEN /\ fnCalls' = fnCalls + 1
              /\ \E ns \in 0 .. MaxCallNs : clock' = clock + ns
              /\ bn' = [bn EXCEPT !.timed = bn.timed + 1]
         ELSE /\ bn' = [bn EXCEPT !.pc = "t1"]
              /\ UNCHANGED <<clock, fnCalls>>
    /\ UNCHANGED <<listVars, stamps, out, mainVars>>

\* Mutant: the start timestamp is not subtracted.
ElapsedSinceClockZero(t0, t1) == t1

\* time.perf_counter_ns() - t0
ElapsedNs(t0, t1) == t1 - t0

\* elapsed_ns = time.perf_counter_ns() - t0
BenchElapsed ==
    /\ bn.pc = "t1"
    /\ bn' = [bn EXCEPT !.pc = "divide", !.elapsed_ns = ElapsedNs(bn.t0, clock)]
    /\ stamps' = Append(stamps, [t |-> clock, calls |-> fnCalls])
    /\ UNCHANGED <<listVars, clock, fnCalls, out, mainVars>>

\* ns_per = elapsed_ns / iterations; print(...); return ns_per
\* Dividing by zero raises ZeroDivisionError.
BenchReport ==
    /\ bn.pc = "divide"
    /\ IF bn.iterations = 0
         THEN /\ bn' = [bn EXCEPT !.pc = "raised", !.err = "ZeroDivisionError"]
              /\ UNCHANGED out
         ELSE LET ns_per == TrueDiv(bn.elapsed_ns, bn.iterations) IN
              /\ out' = Append(out, ResultLine(bn.label, ns_per))
              /\ bn' = [bn EXCEPT !.pc = "returned", !.ns_per = ns_per]
    /\ UNCHANGED <<listVars, clock, fnCalls, stamps, mainVars>>

\* The iteration counts tried: the non-positive ones of the error cases and
\* every count up to MaxIterations.
IterationCounts == {-1} \cup (0 .. MaxIterations)

\* bench("stub", fn, head, iterations) called directly, fn a stub that counts
\* its calls (or an object that is not callable).
InitBench ==
    /\ heap = <<>> /\ ctorCalls = 0 /\ bl = IdleBuild /\ sm = IdleSum /\ drv = IdleDrv
    /\ clock = 0 /\ fnCalls = 0 /\ stamps = <<>> /\ out = <<>>
    /\ mn = IdleMain /\ proc = NoProc
    /\ \E it \in IterationCounts, c \in BOOLEAN, w \in 0 .. MaxCallNs :
          bn = [IdleBench EXCEPT !.pc = "assert_iterations", !.label = "stub",
                                 !.fn = [callable |-> c, warm_ns |-> w],
                                 !.iterations = it]

NextBench ==
    \/ BenchAssertIterations
    \/ BenchAssertCallable
    \/ BenchWarmup
    \/ BenchT0
    \/ BenchTimed
    \/ BenchElapsed
    \/ BenchReport

SpecBench == InitBench /\ [][NextBench]_vars

\* --------------------------------------------------------- version probes

\* stdout of a subprocess: a sequence of characters over this alphabet.
Chars == {"v", " ", "\n"}
Whitespace == {" ", "\n"}

RECURSIVE StringsUpTo(_)
StringsUpTo(len) ==
    IF len = 0 THEN {<<>>}
    ELSE LET shorter == StringsUpTo(len - 1) IN
         shorter \cup {Append(str, c) : str \in {x \in shorter : Len(x) = len - 1}, c \in Chars}

\* What running a command can do: the program is not installed
\* (FileNotFoundError), it does not end within the timeout (TimeoutExpired),
\* or it exits with a return code after writing stdout.
ProcessOutcomes(maxLen) ==
    {[kind |-> "missing"], [kind |-> "timeout"]} \cup
    {[kind |-> "exited", returncode |-> rc, stdout |-> o] :
        rc \in {0, 1}, o \in StringsUpTo(maxLen)}

\* "unknown"
Unknown == <<"u", "n", "k", "n", "o", "w", "n">>

\* str.split("\n")[0]
RECURSIVE FirstLine(_)
FirstLine(str) ==
    IF str = <<>> \/ Head(str) = "\n" THEN <<>>
    ELSE <<Head(str)>> \o FirstLine(Tail(str))

\* str.strip()
RECURSIVE LStrip(_)
LStrip(str) ==
    IF str # <<>> /\ Head(str) \in Whitespace THEN LStrip(Tail(str)) ELSE str
RECURSIVE RStrip(_)
RStrip(str) ==
    IF str # <<>> /\ str[Len(str)] \in Whitespace
      THEN RStrip(SubSeq(str, 1, Len(str) - 1)) ELSE str
Strip(str) == RStrip(LStrip(str))

\* get_compiler_version(): subprocess.run(["cc", "--version"], ..., timeout=5)
\* raises only when the program is missing or times out; a completed process,
\* whatever its return code, gives the first line of its stdout.
get_compiler_version(p) ==
    IF p.kind \in {"missing", "timeout"} THEN Unknown
    ELSE Strip(FirstLine(p.stdout))

\* get_rust_version(): the same with ["rustc", "--version"] and the whole stdout.
get_rust_version(p) ==
    IF p.kind \in {"missing", "timeout"} THEN Unknown
    ELSE Strip(p.stdout)

\* -------------------------------------------------------------------- main

\* list length
N == 1000
\* iterations
M == 100000

Line(kind, label, value) == [kind |-> kind, label |-> label, value |-> value]

\* print("=" * 60) ... print(f"Platform: {platform.platform()}")
MainBanner ==
    /\ mn.pc = "banner"
    /\ out' = out \o <<Line("banner", "=", <<>>),
                       Line("banner", "Boundary Crossing Benchmark", <<>>),
                       Line("banner", "=", <<>>),
                       Line("env", "Python", <<>>),
                       Line("env", "Platform", <<>>)>>
    /\ mn' = [mn EXCEPT !.pc = "cc"]
    /\ UNCHANGED <<listVars, benchVars, proc>>

\* print(f"CC:       {get_compiler_version()}")
MainCC ==
    /\ mn.pc = "cc"
    /\ out' = Append(out, Line("env", "CC", get_compiler_version(proc.cc)))
    /\ mn' = [mn EXCEPT !.pc = "rust"]
    /\ UNCHANGED <<listVars, benchVars, proc>>

\* print(f"Rust:     {get_rust_version()}"); print()
MainRust ==
    /\ mn.pc = "rust"
    /\ out' = out \o <<Line("env", "Rust", get_rust_version(proc.rustc)),
                       Line("blank", "", <<>>)>>
    /\ mn' = [mn EXCEPT !.pc = "build", !.b = 1]
    /\ UNCHANGED <<listVars, benchVars, proc>>

\* build_list(NodeClass, n) as one step of its caller.  The loop is evaluated
\* in runs of at most LoopChunk iterations, which changes nothing it computes.
RECURSIVE BuildSome(_, _, _, _, _)
BuildSome(h, cls, head, i, fuel) ==
    IF ~(i > -1) \/ fuel = 0 THEN [heap |-> h, head |-> head, i |-> i]
    ELSE BuildSome(NodeClass(h, cls, i, head), cls, Len(h) + 1, i - 1, fuel - 1)

RECURSIVE BuildRange(_, _, _, _)
BuildRange(h, cls, head, i) ==
    IF ~(i > -1) THEN [heap |-> h, head |-> head]
    ELSE LET some == BuildSome(h, cls, head, i, LoopChunk)
         IN  BuildRange(some.heap, cls, some.head, some.i)

build_list(h, cls, n) ==
    IF ~(n > 0)
      THEN [raised |-> TRUE, heap |-> h, head |-> None]
      ELSE LET built == BuildRange(NodeClass(h, cls, n - 1, None), cls, Len(h) + 1, n - 2)
           IN  [raised |-> FALSE, heap |-> built.heap, head |-> built.head]

\* The while loop of a traversal as one step of its caller, evaluated in runs
\* of at most LoopChunk iterations.
RECURSIVE SumSome(_, _, _, _)
SumSome(h, current, total, fuel) ==
    IF current = None \/ fuel = 0 THEN [current |-> current, total |-> total]
    ELSE SumSome(h, h[current].next, total + h[current].value, fuel - 1)

RECURSIVE SumLoop(_, _, _)
SumLoop(h, current, total) ==
    IF current = None THEN total
    ELSE LET some == SumSome(h, current, total, LoopChunk)
         IN  SumLoop(h, some.current, some.total)

\* py_sum_list(head), python_sum_list(head)
PySumList(h, head) == SumLoop(h, head, 0)
PythonSumList(h, head) == SumLoop(h, head, 0)

\* c_sum_list / rust_sum_list (extension modules): native_sum of the node
\* provider contract, the sum over the chain.
NativeSumList(h, head) == SumLoop(h, head, 0)

NativeTraversals == {"c_sum_list", "rust_sum_list"}

\* What a call fn(head) of main can return.  An extension is outside the
\* program: besides the sum it may return a wrong number, which is what the
\* correctness verification of main exists to catch.
SumOutcomes(fn, h, head) ==
    CASE fn = "py_sum_list" -> {PySumList(h, head)}
      [] fn = "python_sum_list" -> {PythonSumList(h, head)}
      [] OTHER -> {NativeSumList(h, head), NativeSumList(h, head) + 1}

\* py_list = build_list(PyNode, N); c_list = ...(CNode, N); rust_list = ...(RustNode, N)
BuildPlan == <<"PyNode", "CNode", "RustNode">>

\* <list> = build_list(NodeClass, N); after the third, expected = N * (N - 1) // 2.
\* An AssertionError of build_list ends main.
MainBuild ==
    /\ mn.pc = "build"
    /\ LET r == build_list(heap, BuildPlan[mn.b], N)
           m1 == CASE mn.b = 1 -> [mn EXCEPT !.py_list = r.head]
                   [] mn.b = 2 -> [mn EXCEPT !.c_list = r.head]
                   [] OTHER    -> [mn EXCEPT !.rust_list = r.head]
       IN  /\ heap' = r.heap
           /\ ctorCalls' = ctorCalls + (Len(r.heap) - Len(heap))
           /\ mn' = IF r.raised
                      THEN [mn EXCEPT !.pc = "aborted", !.err = "AssertionError"]
                    ELSE IF mn.b < Len(BuildPlan)
                      THEN [m1 EXCEPT !.b = mn.b + 1]
                    ELSE [m1 EXCEPT !.pc = "verify", !.check = 1, !.b = 0,
                                    !.expected = (N * (N - 1)) \div 2]
    /\ UNCHANGED <<bl, sm, drv, benchVars, out, proc>>

\* The six assertions of the correctness verification, in order.
VerifyPlan ==
    <<[fn |-> "py_sum_list", list |-> "py_list"],
      [fn |-> "c_sum_list", list |-> "c_list"],
      [fn |-> "rust_sum_list", list |-> "rust_list"],
      [fn |-> "python_sum_list", list |-> "py_list"],
      [fn |-> "python_sum_list", list |-> "c_list"],
      [fn |-> "python_sum_list", list |-> "rust_list"]>>

ListOf(m, name) ==
    CASE name = "py_list" -> m.py_list
      [] name = "c_list" -> m.c_list
      [] OTHER -> m.rust_list

\* Mutant: the assertion is not evaluated.
AssertSkipped(sum, expected) == TRUE

\* assert <sum> == expected
AssertHolds(sum, expected) == sum = expected

\* assert fn(list) == expected.  A failed assertion raises AssertionError,
\* which nothing catches; after the sixth one that holds, main prints the
\* correctness line and the table header (lines 127-137).
MainVerify ==
    /\ mn.pc = "verify"
    /\ \E ret \in SumOutcomes(VerifyPlan[mn.check].fn, heap,
                              ListOf(mn, VerifyPlan[mn.check].list)) :
        LET m1 == [mn EXCEPT !.sums = Append(mn.sums, ret)] IN
        IF ~AssertHolds(ret, mn.expected)
          THEN /\ mn' = [m1 EXCEPT !.pc = "aborted", !.err = "AssertionError"]
               /\ UNCHANGED out
        ELSE IF mn.check < Len(VerifyPlan)
          THEN /\ mn' = [m1 EXCEPT !.check = mn.check + 1]
               /\ UNCHANGED out
        ELSE /\ mn' = [m1 EXCEPT !.pc = "bench", !.b = 1]
             /\ out' = out \o <<Line("correctness", "all implementations produce", mn.expected),
                                Line("blank", "", <<>>),
                                Line("header", "Linked list traversal", <<N, M>>),
                                Line("header", "Benchmark", <<>>),
                                Line("header", "-", <<>>),
                                Line("header", "Native (loop + data in same language)", <<>>)>>
    /\ UNCHANGED <<listVars, benchVars, proc>>

\* The six bench calls, in order; the results are py_native, c_native,
\* rust_native, py_cross, c_cross, rust_cross.
BenchPlan ==
    <<[label |-> "Python loop, Python nodes", fn |-> "py_sum_list", list |-> "py_list"],
      [label |-> "C loop, C nodes", fn |-> "c_sum_list", list |-> "c_list"],
      [label |-> "Rust loop, Rust nodes", fn |-> "rust_sum_list", list |-> "rust_list"],
      [label |-> "Python loop, Python nodes", fn |-> "python_sum_list", list |-> "py_list"],
      [label |-> "Python loop, C nodes", fn |-> "python_sum_list", list |-> "c_list"],
      [label |-> "Python loop, Rust nodes", fn |-> "python_sum_list", list |-> "rust_list"]>>

\* bench(label, fn, head, iterations) as one step of its caller, for a
\* callable fn and iterations > 0, entered with the clock at clk and calls
\* invocations made so far: WARMUP warmup calls of fn.warm_ns each, the first
\* timestamp, `iterations` calls taking elapsed_ns in all, the second
\* timestamp, the result line.  bn is the frame as bench returns.
BenchCall(label, fn, iterations, clk, calls, elapsed_ns) ==
    LET t0 == clk + WARMUP * fn.warm_ns
        t1 == t0 + elapsed_ns
        ns_per == TrueDiv(ElapsedNs(t0, t1), iterations)
    IN  [bn |-> [IdleBench EXCEPT !.pc = "returned", !.label = label, !.fn = fn,
                                  !.iterations = iterations, !.warm = WARMUP,
                                  !.timed = iterations, !.t0 = t0,
                                  !.elapsed_ns = ElapsedNs(t0, t1), !.ns_per = ns_per],
         clock |-> t1,
         fnCalls |-> calls + WARMUP + iterations,
         stamps |-> <<[t |-> t0, calls |-> calls + WARMUP],
                      [t |-> t1, calls |-> calls + WARMUP + iterations]>>,
         line |-> ResultLine(label, ns_per)]

\* x = bench(label, fn, list, M); before the fourth, the second sub-heading.
\* The M timed traversals of one bench take elapsed_ns on the clock in all.
MainBench ==
    /\ mn.pc = "bench"
    /\ \E elapsed_ns \in 0 .. MaxElapsedNs :
          LET r == BenchCall(BenchPlan[mn.b].label,
                             [callable |-> TRUE, warm_ns |-> proc.warm_ns],
                             M, clock, fnCalls, elapsed_ns) IN
          /\ bn' = r.bn
          /\ fnCalls' = r.fnCalls
          /\ clock' = r.clock
          /\ stamps' = stamps \o r.stamps
          /\ out' = Append(out, r.line) \o
                    (IF mn.b = 3
                       THEN <<Line("header", "Python loop, different node types", <<>>)>>
                       ELSE <<>>)
          /\ mn' = [mn EXCEPT !.times = Append(mn.times, r.bn.ns_per),
                              !.b = mn.b + 1,
                              !.pc = IF mn.b < Len(BenchPlan) THEN "bench" ELSE "ratios"]
    /\ UNCHANGED <<listVars, proc>>

py_native(m) == m.times[1]
c_native(m) == m.times[2]
rust_native(m) == m.times[3]
py_cross(m) == m.times[4]
c_cross(m) == m.times[5]
rust_cross(m) == m.times[6]

\* print("\n--- Ratios (relative to C native) ---") and the five ratio lines.
\* Every ratio divides by c_native: a float division by 0.0 raises
\* ZeroDivisionError at the first of them.
MainRatios ==
    /\ mn.pc = "ratios"
    /\ IF QuotIsZero(c_native(mn))
         THEN /\ out' = Append(out, Line("header", "Ratios (relative to C native)", <<>>))
              /\ mn' = [mn EXCEPT !.pc = "aborted", !.err = "ZeroDivisionError"]
         ELSE /\ out' = out \o
                  <<Line("header", "Ratios (relative to C native)", <<>>),
                    Line("ratio", "Python native / C native", QuotDiv(py_native(mn), c_native(mn))),
                    Line("ratio", "Rust native / C native", QuotDiv(rust_native(mn), c_native(mn))),
                    Line("ratio", "Python cross / C native", QuotDiv(py_cross(mn), c_native(mn))),
                    Line("ratio", "C cross / C native", QuotDiv(c_cross(mn), c_native(mn))),
                    Line("ratio", "Rust cross / C native", QuotDiv(rust_cross(mn), c_native(mn)))>>
              /\ mn' = [mn EXCEPT !.pc = "falsification"]
    /\ UNCHANGED <<listVars, benchVars, proc>>

\* Mutant: equal timings count as "Rust faster".
FalsificationNotStrict(rust, c) ==
    IF ~QuotLess(c, rust)
      THEN <<Line("unexpected", "Rust native FASTER than C native", <<>>),
             Line("unexpected", "hypothesis is WRONG", <<>>)>>
      ELSE <<Line("overhead", "Rust native slower than C native by",
                  [difference |-> QuotSub(rust, c),
                   overhead_ns |-> QuotDivInt(QuotSub(rust, c), N)]),
             Line("overhead", "Consistent with PyO3 extract/borrow overhead per node", <<>>)>>

\* if rust_native < c_native: ... else: overhead_ns = (rust_native - c_native) / N ...
Falsification(rust, c) ==
    IF QuotLess(rust, c)
      THEN <<Line("unexpected", "Rust native FASTER than C native", <<>>),
             Line("unexpected", "hypothesis is WRONG", <<>>)>>
      ELSE <<Line("overhead", "Rust native slower than C native by",
                  [difference |-> QuotSub(rust, c),
                   overhead_ns |-> QuotDivInt(QuotSub(rust, c), N)]),
             Line("overhead", "Consistent with PyO3 extract/borrow overhead per node", <<>>)>>

\* print("\n--- Falsification ---") and one of the two outcomes; main returns.
MainFalsification ==
    /\ mn.pc = "falsification"
    /\ out' = Append(out, Line("header", "Falsification", <<>>))
                \o Falsification(rust_native(mn), c_native(mn))
    /\ mn' = [mn EXCEPT !.pc = "done"]
    /\ UNCHANGED <<listVars, benchVars, proc>>

\* The machines main is run on here: cc missing or printing its version, rustc
\* hanging or printing its version, a warmup call taking 0 or 1 ns.
MainMachines ==
    {[cc |-> c, rustc |-> r, warm_ns |-> w] :
        w \in {0, 1},
        c \in {[kind |-> "missing"],
               [kind |-> "exited", returncode |-> 0, stdout |-> <<"v", "\n", "v">>]},
        r \in {[kind |-> "timeout"],
               [kind |-> "exited", returncode |-> 0, stdout |-> <<"v", "\n">>]}}

InitMain ==
    /\ heap = <<>> /\ ctorCalls = 0 /\ bl = IdleBuild /\ sm = IdleSum /\ drv = IdleDrv
    /\ bn = IdleBench /\ clock = 0 /\ fnCalls = 0 /\ stamps = <<>> /\ out = <<>>
    /\ mn = StartMain
    /\ proc \in MainMachines

NextMain ==
    \/ MainBanner
    \/ MainCC
    \/ MainRust
    \/ MainBuild
    \/ MainVerify
    \/ MainBench
    \/ MainRatios
    \/ MainFalsification

SpecMain == InitMain /\ [][NextMain]_vars

\* The environment section of main on every machine: cc and rustc missing,
\* timing out, or exiting with status 0 or 1 after any stdout of up to
\* MaxStdoutLen characters.
InitProbe ==
    /\ heap = <<>> /\ ctorCalls = 0 /\ bl = IdleBuild /\ sm = IdleSum /\ drv = IdleDrv
    /\ bn = IdleBench /\ clock = 0 /\ fnCalls = 0 /\ stamps = <<>> /\ out = <<>>
    /\ mn = StartMain
    /\ proc \in {[cc |-> c, rustc |-> r, warm_ns |-> 0] :
                    c \in ProcessOutcomes(MaxStdoutLen), r \in ProcessOutcomes(MaxStdoutLen)}

NextProbe ==
    \/ MainBanner
    \/ MainCC
    \/ MainRust

SpecProbe == InitProbe /\ [][NextProbe]_vars

\* ------------------------------------------------------------ direct calls

\* The list lengths tried: the two non-positive lengths of the error cases and
\* every length up to MaxN.
Lengths == {-5} \cup (0 .. MaxN)

PythonTraversals == {"py_sum_list", "python_sum_list"}

\* build_list(NodeClass, n)
DrvCallBuild ==
    /\ drv.pc = "call_build"
    /\ bl.pc = "idle"
    /\ bl' = [pc |-> "assert", NodeClass |-> drv.NodeClass, n |-> drv.n,
              head |-> None, i |-> 0]
    /\ drv' = [drv EXCEPT !.pc = "building"]
    /\ UNCHANGED <<heap, ctorCalls, sm>>
    /\ UNCHANGED <<benchVars, out, mainVars>>

\* head = build_list(...) has returned
DrvBuilt ==
    /\ drv.pc = "building"
    /\ bl.pc = "returned"
    /\ drv' = [drv EXCEPT !.pc = "ready", !.head = bl.head]
    /\ UNCHANGED <<heap, ctorCalls, bl, sm>>
    /\ UNCHANGED <<benchVars, out, mainVars>>

\* fn(head) for one of the two Python traversals
DrvCallSum ==
    /\ drv.pc = "ready"
    /\ sm.pc = "idle"
    /\ Len(drv.sums) < MaxSumCalls
    /\ \E fn \in PythonTraversals :
          sm' = [IdleSum EXCEPT !.pc = "init", !.fn = fn, !.head = drv.head]
    /\ UNCHANGED <<heap, ctorCalls, bl, drv>>
    /\ UNCHANGED <<benchVars, out, mainVars>>

\* the traversal has returned
DrvSumReturned ==
    /\ drv.pc = "ready"
    /\ sm.pc = "returned"
    /\ drv' = [drv EXCEPT !.sums = Append(drv.sums, [fn |-> sm.fn, ret |-> sm.ret])]
    /\ sm' = IdleSum
    /\ UNCHANGED <<heap, ctorCalls, bl>>
    /\ UNCHANGED <<benchVars, out, mainVars>>

InitList ==
    /\ heap = <<>>
    /\ ctorCalls = 0
    /\ bl = IdleBuild
    /\ sm = IdleSum
    /\ bn = IdleBench /\ clock = 0 /\ fnCalls = 0 /\ stamps = <<>> /\ out = <<>>
    /\ mn = IdleMain /\ proc = NoProc
    /\ \E n \in Lengths, cls \in Providers :
          drv = [IdleDrv EXCEPT !.pc = "call_build", !.NodeClass = cls, !.n = n]

NextList ==
    \/ DrvCallBuild
    \/ BuildAssert
    \/ BuildFirst
    \/ BuildLoop
    \/ DrvBuilt
    \/ DrvCallSum
    \/ py_sum_list
    \/ python_sum_list
    \/ DrvSumReturned

SpecList == InitList /\ [][NextList]_vars

\* The calls are sequential code: a statement that can run does run.
SpecListLive == SpecList /\ WF_vars(NextList)

\* ------------------------------------------------------------------ claims

\* The references met from head through next, at most fuel of them.
RECURSIVE Chain(_, _, _)
Chain(h, ref, fuel) ==
    IF ref = None \/ fuel = 0 THEN <<>>
    ELSE <<ref>> \o Chain(h, h[ref].next, fuel - 1)

\* head starts an acyclic chain of exactly n nodes of h with the values
\* 0, 1, ..., n-1 in that order, the last one pointing to None.
IsAscendingList(h, head, n) ==
    LET refs == Chain(h, head, Len(h) + 1) IN
    /\ Len(refs) = n
    /\ \A k \in 1 .. Len(refs) : h[refs[k]].value = k - 1
    /\ \A j, k \in 1 .. Len(refs) : refs[j] = refs[k] => j = k
    /\ Len(refs) > 0 => h[refs[Len(refs)]].next = None

ExpectedSum(n) == (n * (n - 1)) \div 2

\* C1: for n > 0, build_list returns the head of an acyclic list of exactly n
\* nodes with the values 0 .. n-1 from head to tail and None after the last;
\* the constructor has been called exactly n times, and no step ever changes
\* a node that is already built.
C1_BuildListShape ==
    /\ [](bl.pc = "returned" /\ bl.n > 0 =>
            /\ IsAscendingList(heap, bl.head, bl.n)
            /\ ctorCalls = bl.n
            /\ Len(heap) = bl.n)
    /\ [][\A r \in DOMAIN heap : r \in DOMAIN heap' /\ heap'[r] = heap[r]]_vars

C1_Witness ==
    /\ bl.pc = "returned"
    /\ bl.n = 3
    /\ bl.NodeClass = "CNode"
    /\ Len(heap) = 3

\* C2: for n > 0, every call of py_sum_list or python_sum_list on the built
\* list terminates and returns n*(n-1)/2, the heap is not changed by the
\* traversal, and so a second call returns the same value.
C2_SumsCorrect ==
    /\ [](sm.pc = "returned" => sm.ret = ExpectedSum(drv.n))
    /\ [](\A k \in DOMAIN drv.sums : drv.sums[k].ret = ExpectedSum(drv.n))
    /\ [](drv.pc = "ready" => IsAscendingList(heap, drv.head, drv.n))
    /\ [][sm.pc # "idle" => heap' = heap]_vars
    /\ (sm.pc = "init" ~> sm.pc = "returned")

C2_Witness ==
    /\ drv.n = 3
    /\ Len(drv.sums) = 2
    /\ drv.sums[1].fn = "python_sum_list"
    /\ drv.sums[2].fn = "python_sum_list"
    /\ drv.sums[2].ret = 3

\* C6: build_list with n <= 0 raises at its assertion before any work: no
\* constructor call, no node allocated, no head returned to the caller.
C6_BuildListRejects ==
    drv.n <= 0 =>
        /\ bl.pc \in {"idle", "assert", "raised"}
        /\ bl.pc = "idle" => drv.pc = "call_build"
        /\ ctorCalls = 0
        /\ heap = <<>>
        /\ bl.head = None
        /\ drv.head = None
        /\ drv.pc \in {"call_build", "building"}

C6_Witness ==
    /\ bl.pc = "raised"
    /\ bl.n = -5
    /\ ctorCalls = 0

\* C3: a valid call of bench (iterations > 0, fn callable) never makes more
\* than 1000 + iterations invocations of fn, and has made exactly that many
\* when it returns.
C3_BenchCallCount ==
    (bn.pc # "idle" /\ bn.iterations > 0 /\ bn.fn.callable) =>
        /\ fnCalls <= 1000 + bn.iterations
        /\ bn.pc = "returned" => fnCalls = 1000 + bn.iterations

C3_Witness ==
    /\ bn.pc = "returned"
    /\ bn.iterations = 3
    /\ fnCalls = 1003

\* C5: with iterations <= 0 or fn not callable, bench raises at its
\* assertions: it never gets past them, fn is never invoked, no timestamp is
\* taken and no line is printed.
C5_BenchRejects ==
    (bn.pc # "idle" /\ (bn.iterations <= 0 \/ ~bn.fn.callable)) =>
        /\ bn.pc \in {"assert_iterations", "assert_callable", "raised"}
        /\ bn.pc = "assert_callable" => bn.iterations > 0
        /\ bn.pc = "raised" => bn.err = "AssertionError"
        /\ fnCalls = 0
        /\ stamps = <<>>
        /\ out = <<>>

C5_Witness ==
    /\ bn.pc = "raised"
    /\ bn.err = "AssertionError"
    /\ ~bn.fn.callable
    /\ bn.iterations = 2

\* C10: the first timestamp is taken after all 1000 warmup invocations, the
\* second after exactly `iterations` further ones, nothing is invoked after
\* the second, and the value returned (and printed) is
\* (second - first) / iterations.
C10_TimedPhase ==
    /\ Len(stamps) <= 2
    /\ Len(stamps) >= 1 => stamps[1].calls = 1000
    /\ Len(stamps) = 1 => fnCalls - stamps[1].calls <= bn.iterations
    /\ Len(stamps) = 2 =>
          /\ stamps[2].calls - stamps[1].calls = bn.iterations
          /\ fnCalls = stamps[2].calls
    /\ bn.pc = "returned" =>
          /\ Len(stamps) = 2
          /\ bn.ns_per[2] > 0
          /\ bn.ns_per[1] * bn.iterations = (stamps[2].t - stamps[1].t) * bn.ns_per[2]
          /\ out = <<ResultLine(bn.label, bn.ns_per)>>

C10_Witness ==
    /\ bn.pc = "returned"
    /\ bn.iterations = 3
    /\ bn.fn.warm_ns = 2
    /\ stamps[1].t = 2000
    /\ stamps[2].t = 2004
    /\ bn.ns_per = <<4, 3>>

\* The indices of the printed lines of the given kinds.
LinesOfKind(kinds) == {i \in DOMAIN out : out[i].kind \in kinds}

AllSixSumsEqualExpected ==
    /\ Len(mn.sums) = 6
    /\ \A k \in 1 .. 6 : mn.sums[k] = (N * (N - 1)) \div 2

\* C4: main starts no bench call and prints no result, ratio or falsification
\* line unless all six sums have been compared with N*(N-1)/2 and found
\* equal; the first sum that differs is the last one computed, the run is
\* aborted there, and the output holds nothing beyond the environment section.
C4_VerificationGatesReport ==
    /\ (fnCalls > 0 \/ LinesOfKind({"result", "ratio", "unexpected", "overhead"}) # {}
        \/ mn.pc \in {"bench", "ratios", "falsification", "done"})
          => AllSixSumsEqualExpected
    /\ \A k \in DOMAIN mn.sums :
          mn.sums[k] # (N * (N - 1)) \div 2 =>
              /\ k = Len(mn.sums)
              /\ mn.pc = "aborted"
              /\ mn.err = "AssertionError"
              /\ fnCalls = 0
              /\ LinesOfKind({"banner", "env", "blank"}) = DOMAIN out

C4_Witness ==
    /\ mn.pc = "aborted"
    /\ Len(mn.sums) = 3
    /\ mn.sums[3] # (N * (N - 1)) \div 2
    /\ fnCalls = 0

\* C7: a version probe whose subprocess is missing, times out or exits with
\* a failure status prints "unknown" for its field, and main goes on.
ProbeFailed(p) == p.kind \in {"missing", "timeout"} \/ (p.kind = "exited" /\ p.returncode # 0)

C7_FailedProbeGivesUnknown ==
    /\ mn.pc # "aborted"
    /\ \A i \in DOMAIN out :
          /\ (out[i].label = "CC" /\ ProbeFailed(proc.cc)) => out[i].value = Unknown
          /\ (out[i].label = "Rust" /\ ProbeFailed(proc.rustc)) => out[i].value = Unknown

\* C8: once all six sums have been verified, main is never aborted, whatever
\* the six timings are.
C8_CompletesOnceVerified ==
    AllSixSumsEqualExpected => mn.pc # "aborted"

\* C9: a finished run has printed exactly one of the two falsification
\* outcomes: the "unexpected" one if and only if rust_native < c_native,
\* otherwise the overhead one with (rust_native - c_native) / N per node,
\* which is not negative.
C9_FalsificationOutcome ==
    mn.pc = "done" =>
        LET rust == mn.times[3]
            c == mn.times[2]
            unexpected == LinesOfKind({"unexpected"})
            overhead == {i \in LinesOfKind({"overhead"}) : out[i].value # <<>>}
        IN  /\ (unexpected # {}) # (overhead # {})
            /\ (unexpected # {}) <=> (rust[1] * c[2] < c[1] * rust[2])
            /\ Cardinality(overhead) <= 1
            /\ \A i \in overhead :
                  /\ out[i].value.overhead_ns = QuotDivInt(QuotSub(rust, c), N)
                  /\ out[i].value.overhead_ns[1] >= 0
                  /\ out[i].value.overhead_ns[2] > 0

C9_Witness ==
    /\ mn.pc = "done"
    /\ mn.times[3] = <<1, 50000>>
    /\ mn.times[2] = <<1, 100000>>
    /\ \E i \in DOMAIN out :
          /\ out[i].kind = "overhead"
          /\ out[i].value # <<>>
          /\ out[i].value.overhead_ns = <<1, 100000000>>

====
